---- MODULE Spec2Model ----
(***************************************************************************)
(* Verification model of models/PCP_MAE.py (PCP-MAE point-cloud masked     *)
(* autoencoder): masking policies, FPS+kNN grouping, the shared-weight     *)
(* self/cross attention block, the point-to-image projection, the encoder  *)
(* and decoder stacks, checkpoint loading, and PCP_MAE's constructor and   *)
(* forward pass, which composes the grouping, masking and projection.      *)
(*                                                                         *)
(* Numbers: coordinates are integers and mask ratios are dyadic rationals  *)
(* (mask_ratio / RatioDen), so every product and quotient the code forms   *)
(* is computed exactly; learned layers (Linear, LayerNorm, Mlp, softmax)   *)
(* are uninterpreted term constructors, so two outputs are equal in the    *)
(* model only if the code computes them from the same operands.            *)
(***************************************************************************)
EXTENDS Integers, Sequences, FiniteSets, TLC

\* ------------------------------------------------------------------ bounds
MaxB == 2          \* batch sizes 1..MaxB
MaxG == 3          \* group counts 1..MaxG
RatioDen == 4      \* mask_ratio ranges over k/RatioDen, k in 0..RatioDen-1
MaxN == 2          \* points per cloud 1..MaxN
MaxM == 3          \* group sizes 1..MaxM
MaxTok == 2        \* token sequences of length up to MaxTok
MaxSeq == 3        \* encoder/decoder stack: sequences of length 1..MaxSeq
Depth == 2         \* encoder/decoder stack: number of blocks (depth)
MaxKeys == 2       \* checkpoint: at most MaxKeys entries

\* points of the clouds given to proj2img
ProjPts == { <<0, 0, 1>>, <<1, 0, 2>>, <<3, 2, -1>>, <<3, 2, 1>> }

\* token values
Tok == { 0, 1 }
\* DropPath draws one Bernoulli value per sample and call
SeedLen == 4

\* centers / points are drawn from this set of 3-D integer points
Pts == { <<0, 0, 0>>, <<1, 0, 0>>, <<0, 2, 1>> }

NoAttr == -1       \* an attribute that has not been set on the module

VARIABLES
    \* ---- MaskTransformer masking policies
    mask_type,        \* config.transformer_config.mask_type: "rand" | "block"
    mask_ratio,       \* numerator of self.mask_ratio (over RatioDen)
    noaug,            \* argument noaug
    center,           \* argument center: B sequences of G points
    bool_masked_pos,  \* returned mask: B sequences of G booleans
    anchor,           \* per sample, the index drawn by random.randint
    num_mask,         \* attribute self.num_mask (set by _mask_center_rand)
    rng_draws,        \* number of draws taken from the random generators
    mask_pc,          \* "ready" before the call, "done" after it
    \* ---- Group.forward
    xyz,              \* argument xyz: B clouds of N points
    num_group,        \* self.num_group (G)
    group_size,       \* self.group_size (M)
    grp_center,       \* center = misc.fps(xyz, num_group)
    grp_idx,          \* idx = knn_point(group_size, xyz, center), 0-based
    neighborhood,     \* returned neighborhood: B x G x M points
    grp_pc,           \* "ready", then "done" (returned) or "raised"
    \* ---- Attention.forward / Block.forward
    att_x,            \* argument x: N tokens
    att_y,            \* argument y of the first joint call: L tokens
    att_y2,           \* argument y of the second joint call
    drop_path_active, \* self.drop_path is a DropPath (rate > 0) in training
    att_seed,         \* the draws the seeded generator yields, in order
    out_joint,        \* result of block(x, y)
    out_joint2,       \* result of block(x, y2)
    out_self,         \* result of block(x)
    att_pc,           \* "joint", "joint2", "self", then "done"
    \* ---- PCP_MAE.proj2img
    pc,               \* argument pc: B clouds of N points
    nan_int,          \* what .int() makes of a NaN (undefined conversion)
    dense_center,     \* per sample idx_xy_dense_center (int32 x, y)
    dense_raw,        \* idx_xy_dense_offset before the bounds adjustment
    dense_adj,        \* idx_xy_dense_offset after the bounds adjustment
    img,              \* the scattered, padded and reshaped image
    proj_pc,          \* "ready", then "done" (returned) or "raised"
    \* ---- TransformerEncoder.forward / TransformerDecoder.forward
    stk_x,            \* argument x: token sequence
    stk_pos,          \* argument pos (meaningful when stk_has_pos)
    stk_has_pos,      \* FALSE: pos is None (decoder only)
    stk_x_mask,       \* argument x_mask (meaningful when stk_has_mask)
    stk_pos_mask,     \* argument pos_mask
    stk_has_mask,     \* FALSE: x_mask is None (encoder only)
    return_token_num, \* argument return_token_num of the decoder
    stk_out,          \* what the call returned
    stk_pc,           \* "encoder" | "decoder", then "done" or "raised"
    \* ---- PointTransformer.load_model_from_ckpt
    bert_ckpt_path,   \* argument: TRUE a path is given, FALSE it is None
    ckpt,             \* torch.load(path): [has_base, base_model], the
                      \* latter a dict as a sequence of [key, val] entries
    base_ckpt_in,     \* base_ckpt before the rewrite loop (line 858)
    base_ckpt,        \* base_ckpt after the rewrite loop
    loaded,           \* model parameter -> id of the tensor copied into it
    incompatible,     \* [missing_keys, unexpected_keys]
    ckpt_log,         \* messages given to print_log, in order
    ckpt_err,         \* the exception raised, "" if none
    ckpt_pc,          \* "ready", then "done" or "raised"
    \* ---- PCP_MAE.__init__ / PCP_MAE.forward
    config_loss,      \* config.loss
    loss_func,        \* attribute self.loss_func ("none": never set)
    enc_out,          \* MAE_encoder's x_vis, x_mask and vis_center, as
                      \* rows of the group ids <<b, g>> they come from
    fwd_out,          \* what forward computed and returned
    fwd_err,          \* the exception raised, "" if none
    fwd_pc            \* "new", "built", "group", "mask", "proj", then
                      \* "done" or "raised"

maskVars == << mask_type, mask_ratio, noaug, center, bool_masked_pos, anchor,
               num_mask, rng_draws, mask_pc >>

groupVars == << xyz, num_group, group_size, grp_center, grp_idx,
                neighborhood, grp_pc >>

attVars == << att_x, att_y, att_y2, drop_path_active, att_seed, out_joint,
              out_joint2, out_self, att_pc >>

projVars == << pc, nan_int, dense_center, dense_raw, dense_adj, img, proj_pc >>

stackVars == << stk_x, stk_pos, stk_has_pos, stk_x_mask, stk_pos_mask,
                stk_has_mask, return_token_num, stk_out, stk_pc >>

ckptVars == << bert_ckpt_path, ckpt, base_ckpt_in, base_ckpt, loaded,
               incompatible, ckpt_log, ckpt_err, ckpt_pc >>

fwdVars == << config_loss, loss_func, enc_out, fwd_out, fwd_err, fwd_pc >>

vars == << maskVars, groupVars, attVars, projVars, stackVars, ckptVars,
           fwdVars >>

\* ------------------------------------------------------------- helpers
Perms(n) == { p \in [1..n -> 1..n] : \A i, j \in 1..n : i # j => p[i] # p[j] }

\* squared Euclidean distance; torch.norm(p=2) is monotone in it
SqDist(p, q) == (p[1] - q[1]) * (p[1] - q[1]) + (p[2] - q[2]) * (p[2] - q[2])
                + (p[3] - q[3]) * (p[3] - q[3])

\* int(ratio * n): Python int() truncates; the product is non-negative
IntTrunc(num, den, n) == (num * n) \div den

\* Python round(): round half to even
PyRound(num, den, n) ==
    LET q == (num * n) \div den
        r == (num * n) % den
    IN  IF 2 * r < den THEN q
        ELSE IF 2 * r > den THEN q + 1
        ELSE IF q % 2 = 0 THEN q ELSE q + 1

\* ------------------------------------------------ MaskTransformer masking
BatchOf(c) == Len(c)
GroupsOf(c) == Len(c[1])

\* torch.zeros(center.shape[:2]).bool()
ZerosMask(B, G) == [b \in 1..B |-> [g \in 1..G |-> FALSE]]

\* if noaug or self.mask_ratio == 0: skip the mask
SkipMask_noaug_ignored(na, ratio) == ratio = 0
SkipMask(na, ratio) == na \/ ratio = 0

\* mask_num = int(ratio * len(idx)); self.num_mask = int(self.mask_ratio * G)
MaskNum_rounded(ratio, G) == PyRound(ratio, RatioDen, G)
MaskNum(ratio, G) == IntTrunc(ratio, RatioDen, G)

\* torch.argsort(distance_matrix): any permutation that orders the
\* distances ascending (the sort is not stable, ties come in any order)
IsArgsort_descending(idx, d) ==
    \A i, j \in DOMAIN idx : i < j => d[idx[i]] >= d[idx[j]]
IsArgsort(idx, d) ==
    \A i, j \in DOMAIN idx : i < j => d[idx[i]] <= d[idx[j]]

\* distance_matrix for one sample and anchor index
DistanceMatrix(points, index) ==
    [g \in 1..Len(points) |-> SqDist(points[index], points[g])]

\* mask = zeros(G); mask[idx[:mask_num]] = 1; mask.bool()
BlockMaskRow(idx, mask_num) ==
    [g \in 1..Len(idx) |-> \E i \in 1..mask_num : idx[i] = g]

\* np.hstack([zeros(G - num_mask), ones(num_mask)])
HStackRow(G, nm) == [i \in 1..G |-> IF i <= G - nm THEN 0 ELSE 1]

\* np.random.shuffle(mask) with permutation p, then .to(torch.bool)
ShuffledRow(G, nm, p) == [i \in 1..G |-> HStackRow(G, nm)[p[i]] = 1]

MaskStart ==
    /\ mask_type \in {"rand", "block"}
    /\ mask_ratio \in 0..(RatioDen - 1)
    /\ noaug \in BOOLEAN
    /\ \E B \in 1..MaxB, G \in 1..MaxG : center \in [1..B -> [1..G -> Pts]]
    /\ bool_masked_pos = << >>
    /\ anchor = << >>
    /\ num_mask = NoAttr
    /\ rng_draws = 0
    /\ mask_pc = "ready"

\* MaskTransformer._mask_center_block(center, noaug)
MaskCenterBlock ==
    /\ mask_pc = "ready"
    /\ mask_type = "block"
    /\ LET B == BatchOf(center)
           G == GroupsOf(center)
       IN  IF SkipMask(noaug, mask_ratio)
           THEN /\ bool_masked_pos' = ZerosMask(B, G)
                /\ UNCHANGED << anchor, rng_draws >>
           ELSE \E index \in [1..B -> 1..G] :
                \E idx \in [1..B -> Perms(G)] :
                   /\ \A b \in 1..B :
                        IsArgsort(idx[b], DistanceMatrix(center[b], index[b]))
                   /\ bool_masked_pos' =
                        [b \in 1..B |->
                            BlockMaskRow(idx[b], MaskNum(mask_ratio, G))]
                   /\ anchor' = index
                   /\ rng_draws' = rng_draws + B
    /\ mask_pc' = "done"
    /\ UNCHANGED << mask_type, mask_ratio, noaug, center, num_mask >>

\* MaskTransformer._mask_center_rand(center, noaug)
MaskCenterRand ==
    /\ mask_pc = "ready"
    /\ mask_type = "rand"
    /\ LET B == BatchOf(center)
           G == GroupsOf(center)
       IN  IF SkipMask(noaug, mask_ratio)
           THEN /\ bool_masked_pos' = ZerosMask(B, G)
                /\ UNCHANGED << num_mask, rng_draws >>
           ELSE /\ num_mask' = MaskNum(mask_ratio, G)
                /\ \E p \in [1..B -> Perms(G)] :
                      bool_masked_pos' =
                        [b \in 1..B |->
                            ShuffledRow(G, MaskNum(mask_ratio, G), p[b])]
                /\ rng_draws' = rng_draws + B
    /\ mask_pc' = "done"
    /\ UNCHANGED << mask_type, mask_ratio, noaug, center, anchor >>

\* the masking policies are not in use
MaskIdle ==
    /\ mask_type = "rand"
    /\ mask_ratio = 0
    /\ noaug = FALSE
    /\ center = << >>
    /\ bool_masked_pos = << >>
    /\ anchor = << >>
    /\ num_mask = NoAttr
    /\ rng_draws = 0
    /\ mask_pc = "idle"

\* ------------------------------------------------------------ Group
PtSub(p, q) == << p[1] - q[1], p[2] - q[2], p[3] - q[3] >>
PtAdd(p, q) == << p[1] + q[1], p[2] + q[2], p[3] + q[3] >>

\* distance of point i of a cloud to the nearest already chosen index
MinDistTo(points, chosen, i) ==
    LET ds == { SqDist(points[i], points[j]) : j \in chosen }
    IN  CHOOSE d \in ds : \A e \in ds : d <= e

\* misc.fps fails when the cloud has fewer points than centers asked for
FpsFails_never(N, G) == FALSE
FpsFails(N, G) == N < G

\* misc.fps: the index sequences farthest-point sampling can return: an
\* arbitrary start, then repeatedly an index not yet chosen that maximises
\* the distance to the chosen ones
FpsIndices(points, G) ==
    LET N == Len(points)
        Cand(s, k) ==
            LET prev == { s[j] : j \in 1..(k - 1) }
            IN  IF (1..N) \ prev = {} THEN 1..N ELSE (1..N) \ prev
    IN  { s \in [1..G -> 1..N] :
            \A k \in 2..G :
               LET prev == { s[j] : j \in 1..(k - 1) }
               IN  /\ s[k] \in Cand(s, k)
                   /\ \A i \in Cand(s, k) :
                         MinDistTo(points, prev, s[k])
                            >= MinDistTo(points, prev, i) }

\* misc.fps over the first b clouds of a batch: one index sequence per cloud
RECURSIVE FpsBatch(_, _, _)
FpsBatch(x, G, b) ==
    IF b = 0 THEN { << >> }
    ELSE { Append(s, f) : s \in FpsBatch(x, G, b - 1),
                          f \in FpsIndices(x[b], G) }

\* knn_point fails when the cloud has fewer points than neighbours asked for
KnnFails(N, M) == N < M

\* knn_point(nsample, xyz, new_xyz) for one cloud: for each center the
\* 0-based indices of the nsample nearest points, ties by index order
KnnPoint(nsample, points, ctrs) ==
    LET N == Len(points)
        Before(c, j, i) ==
            \/ SqDist(c, points[j]) < SqDist(c, points[i])
            \/ (SqDist(c, points[j]) = SqDist(c, points[i]) /\ j < i)
        Rank(c, i) == Cardinality({ j \in 1..N : Before(c, j, i) })
    IN  [g \in 1..Len(ctrs) |->
           [m \in 1..nsample |->
              (CHOOSE i \in 1..N : Rank(ctrs[g], i) = m - 1) - 1]]

\* idx_base = torch.arange(0, batch_size).view(-1, 1, 1) * num_points
IdxBase_missing(b, num_points) == 0
IdxBase(b, num_points) == b * num_points

\* xyz.view(batch_size * num_points, -1): row b*N + i is point i of cloud b
FlatXyz(x) ==
    LET N == Len(x[1])
    IN  [r \in 1..(Len(x) * N) |-> x[((r - 1) \div N) + 1][((r - 1) % N) + 1]]

\* idx = (idx + idx_base).view(-1): row-major flattening of B x G x M
FlatIdx(idx, num_points) ==
    LET B == Len(idx)
        G == Len(idx[1])
        M == Len(idx[1][1])
    IN  [r \in 1..(B * G * M) |->
           LET b == (r - 1) \div (G * M)
               g == ((r - 1) \div M) % G
               m == (r - 1) % M
           IN  idx[b + 1][g + 1][m + 1] + IdxBase(b, num_points)]

\* xyz.view(B*N, -1)[idx, :].view(B, G, M, 3) - center.unsqueeze(2)
Gather(flat, fidx, ctr, B, G, M) ==
    [b \in 1..B |->
      [g \in 1..G |->
        [m \in 1..M |->
           PtSub(flat[fidx[(b - 1) * G * M + (g - 1) * M + m] + 1],
                 ctr[b][g])]]]

GroupStart ==
    /\ \E B \in 1..MaxB, N \in 1..MaxN : xyz \in [1..B -> [1..N -> Pts]]
    /\ num_group \in 1..MaxG
    /\ group_size \in 1..MaxM
    /\ grp_center = << >>
    /\ grp_idx = << >>
    /\ neighborhood = << >>
    /\ grp_pc = "ready"

GroupIdle ==
    /\ xyz = << >>
    /\ num_group = 1
    /\ group_size = 1
    /\ grp_center = << >>
    /\ grp_idx = << >>
    /\ neighborhood = << >>
    /\ grp_pc = "idle"

\* Group.forward(xyz)
GroupForward ==
    /\ grp_pc = "ready"
    /\ LET B == Len(xyz)
           N == Len(xyz[1])
       IN  IF FpsFails(N, num_group)
           THEN /\ grp_pc' = "raised"
                /\ UNCHANGED << grp_center, grp_idx, neighborhood >>
           ELSE \E f \in FpsBatch(xyz, num_group, B) :
                \E ctr \in { [b \in 1..B |->
                                [g \in 1..num_group |-> xyz[b][f[b][g]]]] } :
                 /\ grp_center' = ctr
                 /\ IF KnnFails(N, group_size)
                    THEN /\ grp_pc' = "raised"
                         /\ UNCHANGED << grp_idx, neighborhood >>
                    ELSE \E idx \in { [b \in 1..B |->
                               KnnPoint(group_size, xyz[b], ctr[b])] } :
                          /\ grp_idx' = idx
                          \* assert idx.size(1) == self.num_group
                          \* assert idx.size(2) == self.group_size
                          /\ IF /\ Len(idx[1]) = num_group
                                /\ Len(idx[1][1]) = group_size
                             THEN \E flat \in { FlatXyz(xyz) } :
                                  \E fidx \in { FlatIdx(idx, N) } :
                                    /\ neighborhood' =
                                         Gather(flat, fidx, ctr, B,
                                                num_group, group_size)
                                    /\ grp_pc' = "done"
                             ELSE /\ neighborhood' = neighborhood
                                  /\ grp_pc' = "raised"
    /\ UNCHANGED << xyz, num_group, group_size >>
\* ------------------------------------------------ Attention and Block
\* Learned layers are term constructors: equal terms are equal tensors.
Norm1(t) == << "norm1", t >>
Norm2(t) == << "norm2", t >>
MlpOf(t) == << "mlp", t >>
ProjOf(t) == << "proj", t >>
QOf(t) == << "q", t >>
KOf(t) == << "k", t >>
VOf(t) == << "v", t >>
Norm1Seq(s) == [i \in 1..Len(s) |-> Norm1(s[i])]
QSeq(s) == [i \in 1..Len(s) |-> QOf(s[i])]
KSeq(s) == [i \in 1..Len(s) |-> KOf(s[i])]
VSeq(s) == [i \in 1..Len(s) |-> VOf(s[i])]

\* softmax((q @ k^T) * scale) @ v for one query row
AttnRow(q, k, v) == << "attn", q, k, v >>

\* k[:, :, :N], v[:, :, :N]: what the self-attention pass attends to
SelfSlice_all(kv, N) == kv
SelfSlice(kv, N) == SubSeq(kv, 1, N)

\* Attention.forward(x): self attention (attn_drop = proj_drop = 0)
AttentionSelf(x) ==
    LET q == QSeq(x)
        k == KSeq(x)
        v == VSeq(x)
    IN  [i \in 1..Len(x) |-> ProjOf(AttnRow(q[i], k, v))]

\* Attention.forward(x, y): cross attention for y, self attention for x
AttentionJoint(x, y) ==
    LET N == Len(x)
        L == Len(y)
        xc == x \o y
        q == QSeq(xc)
        k == KSeq(xc)
        v == VSeq(xc)
    IN  [ y |-> [i \in 1..L |-> ProjOf(AttnRow(q[N + i], k, v))],
          x |-> [i \in 1..N |->
                   ProjOf(AttnRow(q[i], SelfSlice(k, N), SelfSlice(v, N)))] ]

\* self.drop_path(t): Identity when inactive, else the whole sample is kept
\* (and rescaled) or zeroed according to the next draw of the generator
DropPathOf(active, seed, pos, s) ==
    IF active THEN [i \in 1..Len(s) |-> << "drop_path", seed[pos], s[i] >>]
    ELSE s

\* number of draws one drop_path call takes
DrawsOf(active) == IF active THEN 1 ELSE 0

AddSeq(a, b) == [i \in 1..Len(a) |-> << "add", a[i], b[i] >>]

MlpBranch(s) == [i \in 1..Len(s) |-> MlpOf(Norm2(s[i]))]

\* new_x = x + self.drop_path(new_x)
ResidualAttn_lost(x, branch) == branch
ResidualAttn(x, branch) == AddSeq(x, branch)

\* Block.forward(x): y is None
BlockSelf(x, active, seed) ==
    LET a == AttentionSelf(Norm1Seq(x))
        x1 == AddSeq(x, DropPathOf(active, seed, 1, a))
        x2 == AddSeq(x1, DropPathOf(active, seed, 1 + DrawsOf(active),
                                    MlpBranch(x1)))
    IN  [ x |-> x2, attn_x |-> a, draws |-> 2 * DrawsOf(active) ]

\* Block.forward(x, y)
BlockJoint(x, y, active, seed) ==
    LET a == AttentionJoint(Norm1Seq(x), Norm1Seq(y))
        d == DrawsOf(active)
        nx1 == ResidualAttn(x, DropPathOf(active, seed, 1, a.x))
        ny1 == AddSeq(y, DropPathOf(active, seed, 1 + d, a.y))
        nx2 == AddSeq(nx1, DropPathOf(active, seed, 1 + 2 * d,
                                      MlpBranch(nx1)))
        ny2 == AddSeq(ny1, DropPathOf(active, seed, 1 + 3 * d,
                                      MlpBranch(ny1)))
    IN  [ x |-> nx2, y |-> ny2, attn_x |-> a.x, attn_y |-> a.y,
          draws |-> 4 * d ]

TokSeqs(lo) == UNION { [1..n -> Tok] : n \in lo..MaxTok }

NoOut == [ draws |-> 0 ]

AttStart ==
    /\ att_x \in TokSeqs(1)
    /\ att_y \in TokSeqs(0)
    /\ att_y2 = << >>
    /\ drop_path_active \in BOOLEAN
    /\ att_seed \in [1..SeedLen -> {0, 1}]
    /\ out_joint = NoOut
    /\ out_joint2 = NoOut
    /\ out_self = NoOut
    /\ att_pc = "joint"

AttIdle ==
    /\ att_x = << >>
    /\ att_y = << >>
    /\ att_y2 = << >>
    /\ drop_path_active = FALSE
    /\ att_seed = << >>
    /\ out_joint = NoOut
    /\ out_joint2 = NoOut
    /\ out_self = NoOut
    /\ att_pc = "idle"

\* block(x, y) on a freshly seeded generator
BlockForwardJoint ==
    /\ att_pc = "joint"
    /\ out_joint' = BlockJoint(att_x, att_y, drop_path_active, att_seed)
    /\ att_pc' = "joint2"
    /\ UNCHANGED << att_x, att_y, att_y2, drop_path_active, att_seed,
                    out_joint2, out_self >>

\* block(x, y2) with the same x, weights and seed and another y
BlockForwardJointOther ==
    /\ att_pc = "joint2"
    /\ \E y2 \in TokSeqs(0) :
          /\ att_y2' = y2
          /\ out_joint2' = BlockJoint(att_x, y2, drop_path_active, att_seed)
    /\ att_pc' = "self"
    /\ UNCHANGED << att_x, att_y, drop_path_active, att_seed, out_joint,
                    out_self >>

\* block(x) with the same x, weights and seed
BlockForwardSelf ==
    /\ att_pc = "self"
    /\ out_self' = BlockSelf(att_x, drop_path_active, att_seed)
    /\ att_pc' = "done"
    /\ UNCHANGED << att_x, att_y, att_y2, drop_path_active, att_seed,
                    out_joint, out_joint2 >>

\* ------------------------------------------------------ PCP_MAE.proj2img
ImgSize == 224                 \* self.img_size
EdgeMax == 223                 \* idx_obj = idx_xy_dense_offset > 223
GridCells == ImgSize - 3       \* grid_size = extent / (self.img_size - 3)
Replicas == 25                 \* rows of self.img_offset

\* self.img_offset, row k (1-based)
ImgOffset(k) == << ((k - 1) \div 5) - 2, ((k - 1) % 5) - 2 >>

\* the values an int32 conversion of NaN yields on the supported back ends
NaNAsInt == { (-2147483647) - 1, 0 }

SetMin(S) == CHOOSE m \in S : \A e \in S : m <= e
SetMax(S) == CHOOSE m \in S : \A e \in S : m >= e

\* pc.min(dim=1)[0], pc.max(dim=1)[0] for one sample and coordinate
CoordMin(s, c) == SetMin({ s[n][c] : n \in 1..Len(s) })
CoordMax(s, c) == SetMax({ s[n][c] : n \in 1..Len(s) })

\* pc_range[:, :2].max(dim=-1)[0]: grid_size is Extent / GridCells
Extent(s) ==
    SetMax({ CoordMax(s, 1) - CoordMin(s, 1), CoordMax(s, 2) - CoordMin(s, 2) })

\* grid_size == 0 makes every (pc - pc_min) / grid_size a 0/0, that is NaN
IsNaNSample(s) == Extent(s) = 0

\* idx_xy = torch.floor((pc[:, :, :2] - pc_min) / grid_size), Extent # 0
IdxXYOf(s, min_x, min_y, extent) ==
    [n \in 1..Len(s) |->
       << ((s[n][1] - min_x) * GridCells) \div extent,
          ((s[n][2] - min_y) * GridCells) \div extent >>]
IdxXY(s) == IdxXYOf(s, CoordMin(s, 1), CoordMin(s, 2), Extent(s))

\* idx_xy_dense: every point replicated to the 25 offsets, plus 1
Densify(idx) ==
    [r \in 1..(Len(idx) * Replicas) |->
       LET n == ((r - 1) \div Replicas) + 1
           k == ((r - 1) % Replicas) + 1
       IN  << idx[n][1] + ImgOffset(k)[1] + 1,
              idx[n][2] + ImgOffset(k)[2] + 1 >>]

\* idx_xy_dense_center = floor((max + min) / 2).int(), one coordinate
DenseCenter(dense, c) ==
    (SetMax({ dense[r][c] : r \in 1..Len(dense) })
       + SetMin({ dense[r][c] : r \in 1..Len(dense) })) \div 2

\* offset_x = self.img_size / 2 - idx_xy_dense_center[:, 0:1] - 1
CenterOffset(ctr) == (ImgSize \div 2) - ctr - 1

\* idx + (idx < 0) - (idx > 223)
Adjust_no_upper(v) == IF v < 0 THEN v + 1 ELSE v
Adjust(v) == IF v < 0 THEN v + 1 ELSE IF v > EdgeMax THEN v - 1 ELSE v

\* new_idx_xy_dense = idx[:, :, 0] * self.img_size + idx[:, :, 1]
FlatCell(v) == v[1] * ImgSize + v[2]

\* f_dense: the z coordinate of the point a replica comes from
FDense(s, r) == s[((r - 1) \div Replicas) + 1][3]

\* scatter(f_dense, index, dim=1, reduce='sum') for one sample: the sum of
\* the features of the replicas of points n..N whose index is cell
ScatterSum_overwrite(s, cells, cell, n) ==
    LET hits == { r \in 1..Len(cells) : cells[r] = cell }
    IN  FDense(s, CHOOSE r \in hits : \A q \in hits : q <= r)
RECURSIVE ScatterSum(_, _, _, _)
ScatterSum(s, cells, cell, n) ==
    IF n > Len(s) THEN 0
    ELSE FDense(s, (n - 1) * Replicas + 1)
           * Cardinality({ k \in 1..Replicas :
                             cells[(n - 1) * Replicas + k] = cell })
           + ScatterSum(s, cells, cell, n + 1)

\* the cells scatter writes, with their sums (every other cell of the
\* output is scatter's zero)
Scattered(s, cells) ==
    [c \in { cells[r] : r \in 1..Len(cells) } |-> ScatterSum(s, cells, c, 1)]

ProjStart ==
    /\ \E B \in 1..MaxB, N \in 1..MaxN : pc \in [1..B -> [1..N -> ProjPts]]
    /\ nan_int = 0
    /\ dense_center = << >>
    /\ dense_raw = << >>
    /\ dense_adj = << >>
    /\ img = [ size |-> 0 ]
    /\ proj_pc = "ready"

ProjIdle ==
    /\ pc = << >>
    /\ nan_int = 0
    /\ dense_center = << >>
    /\ dense_raw = << >>
    /\ dense_adj = << >>
    /\ img = [ size |-> 0 ]
    /\ proj_pc = "idle"

\* PCP_MAE.proj2img(pc)
Proj2Img ==
    /\ proj_pc = "ready"
    /\ \E ni \in NaNAsInt :
       \E ctr \in { [b \in 1..Len(pc) |->
                       IF IsNaNSample(pc[b]) THEN << ni, ni >>
                       ELSE LET d == Densify(IdxXY(pc[b]))
                            IN  << DenseCenter(d, 1), DenseCenter(d, 2) >>] } :
       \* a NaN index stays NaN whatever (finite) offset is added to it
       \E raw \in { [b \in 1..Len(pc) |->
                       IF IsNaNSample(pc[b])
                       THEN [ nan |-> TRUE, v |-> << >> ]
                       ELSE LET d == Densify(IdxXY(pc[b]))
                            IN  [ nan |-> FALSE,
                                  v |-> [r \in 1..Len(d) |->
                                     << d[r][1] + CenterOffset(ctr[b][1]),
                                        d[r][2] + CenterOffset(ctr[b][2]) >>]
                                ]] } :
       \E adj \in { [b \in 1..Len(pc) |->
                       [ nan |-> raw[b].nan,
                         v |-> [r \in 1..Len(raw[b].v) |->
                                  << Adjust(raw[b].v[r][1]),
                                     Adjust(raw[b].v[r][2]) >>] ]] } :
          /\ nan_int' = IF \E b \in 1..Len(pc) : IsNaNSample(pc[b])
                         THEN ni ELSE nan_int
          /\ dense_center' = ctr
          /\ dense_raw' = raw
          /\ dense_adj' = adj
          \* assert idx.min() >= 0 and idx.max() <= self.img_size - 1
          /\ IF \A b \in 1..Len(pc) :
                   /\ ~adj[b].nan
                   /\ \A r \in 1..Len(adj[b].v) :
                         /\ adj[b].v[r][1] \in 0..(ImgSize - 1)
                         /\ adj[b].v[r][2] \in 0..(ImgSize - 1)
             THEN \E cells \in { [b \in 1..Len(pc) |->
                                    [r \in 1..Len(adj[b].v) |->
                                       FlatCell(adj[b].v[r])]] } :
                  \E osize \in { 1 + SetMax(UNION { { cells[b][r] :
                                        r \in 1..Len(cells[b]) } :
                                        b \in 1..Len(pc) }) } :
                  \E pad \in { IF osize < ImgSize * ImgSize
                                THEN ImgSize * ImgSize - osize ELSE 0 } :
                     \* res = cat([out, zero_pad]).reshape(B, 224, 224, 3)
                     IF osize + pad = ImgSize * ImgSize
                     THEN /\ img' = [ size |-> osize + pad,
                                      out_size |-> osize,
                                      res_shape |-> << Len(pc), ImgSize,
                                                       ImgSize, 3 >>,
                                      shape |-> << Len(pc), 3, ImgSize,
                                                   ImgSize >>,
                                      sums |-> [b \in 1..Len(pc) |->
                                          Scattered(pc[b], cells[b])] ]
                          /\ proj_pc' = "done"
                     ELSE /\ img' = img
                          /\ proj_pc' = "raised"
             ELSE /\ img' = img
                  /\ proj_pc' = "raised"
    /\ UNCHANGED pc

\* ------------------------- TransformerEncoder and TransformerDecoder
\* a + b on (B, La, C) and (B, Lb, C) tensors: the sequence dimensions
\* must be equal, or one of them 1 (then it is expanded to the other)
AddFails(a, b) == Len(a) # Len(b) /\ Len(a) # 1 /\ Len(b) # 1

AddBroadcast(a, b) ==
    IF Len(a) = Len(b) THEN AddSeq(a, b)
    ELSE IF Len(a) = 1
         THEN [i \in 1..Len(b) |-> << "add", a[1], b[i] >>]
         ELSE [i \in 1..Len(a) |-> << "add", a[i], b[1] >>]

\* SelfBlock.forward(x); evaluation mode, drop_path is the identity
SelfBlockForward(x) == BlockSelf(x, FALSE, << >>).x

NormSeq(s) == [i \in 1..Len(s) |-> << "norm", s[i] >>]

\* for _, block in enumerate(self.blocks): x = block(x + pos)
RECURSIVE EncoderBlocks(_, _, _)
EncoderBlocks(x, pos, d) ==
    IF d = 0 THEN [ raised |-> FALSE, x |-> x ]
    ELSE IF AddFails(x, pos) THEN [ raised |-> TRUE, x |-> x ]
    ELSE EncoderBlocks(BlockSelf(AddBroadcast(x, pos), FALSE, << >>).x,
                       pos, d - 1)

\* for ...: x, x_mask = block(x + pos, x_mask + pos_mask)
RECURSIVE EncoderBlocksJoint(_, _, _, _, _)
EncoderBlocksJoint(x, pos, xm, pm, d) ==
    IF d = 0 THEN [ raised |-> FALSE, x |-> x, x_mask |-> xm ]
    ELSE IF AddFails(x, pos) \/ AddFails(xm, pm)
    THEN [ raised |-> TRUE, x |-> x, x_mask |-> xm ]
    ELSE LET r == BlockJoint(AddBroadcast(x, pos), AddBroadcast(xm, pm),
                             FALSE, << >>)
         IN  EncoderBlocksJoint(r.x, pos, r.y, pm, d - 1)

\* decoder without pos: for ...: x = block(x)
RECURSIVE DecoderBlocksNoPos(_, _)
DecoderBlocksNoPos(x, d) ==
    IF d = 0 THEN x ELSE DecoderBlocksNoPos(SelfBlockForward(x), d - 1)

\* decoder with pos: for ...: x = block(x + pos)
RECURSIVE DecoderBlocks(_, _, _)
DecoderBlocks(x, pos, d) ==
    IF d = 0 THEN [ raised |-> FALSE, x |-> x ]
    ELSE IF AddFails(x, pos) THEN [ raised |-> TRUE, x |-> x ]
    ELSE DecoderBlocks(SelfBlockForward(AddBroadcast(x, pos)), pos, d - 1)

\* x[:, -k:]: a start of -0 is 0, a start below -T is clamped to 0
LastTokens(s, k) ==
    LET T == Len(s)
        start == IF k = 0 THEN 0 ELSE IF k > T THEN 0 ELSE T - k
    IN  SubSeq(s, start + 1, T)

XTokens(n) == [i \in 1..n |-> << "x", i >>]
PosTokens(n) == [i \in 1..n |-> << "pos", i >>]
MaskTokens(n) == [i \in 1..n |-> << "x_mask", i >>]
PosMaskTokens(n) == [i \in 1..n |-> << "pos_mask", i >>]

NoStackOut == [ x |-> << >>, x_mask |-> << >> ]

StackStart ==
    /\ stk_pc \in { "encoder", "decoder" }
    /\ \E n \in 1..MaxSeq : stk_x = XTokens(n)
    /\ stk_has_pos \in BOOLEAN
    /\ stk_pc = "encoder" => stk_has_pos
    /\ IF stk_has_pos THEN \E n \in 1..MaxSeq : stk_pos = PosTokens(n)
       ELSE stk_pos = << >>
    /\ stk_has_mask \in BOOLEAN
    /\ stk_pc = "decoder" => ~stk_has_mask
    /\ IF stk_has_mask
       THEN /\ \E n \in 1..MaxSeq : stk_x_mask = MaskTokens(n)
            /\ \E n \in 1..MaxSeq : stk_pos_mask = PosMaskTokens(n)
       ELSE /\ stk_x_mask = << >>
            /\ stk_pos_mask = << >>
    /\ IF stk_pc = "decoder" /\ stk_has_pos
       THEN return_token_num \in 0..MaxSeq
       ELSE return_token_num = NoAttr
    /\ stk_out = NoStackOut

StackIdle ==
    /\ stk_x = << >>
    /\ stk_pos = << >>
    /\ stk_has_pos = FALSE
    /\ stk_x_mask = << >>
    /\ stk_pos_mask = << >>
    /\ stk_has_mask = FALSE
    /\ return_token_num = NoAttr
    /\ stk_out = NoStackOut
    /\ stk_pc = "idle"

\* TransformerEncoder.forward(x, pos, x_mask, pos_mask)
EncoderForward ==
    /\ stk_pc = "encoder"
    /\ IF ~stk_has_mask
       THEN \E r \in { EncoderBlocks(stk_x, stk_pos, Depth) } :
              IF r.raised
              THEN stk_pc' = "raised" /\ stk_out' = stk_out
              ELSE /\ stk_pc' = "done"
                   /\ stk_out' = [ x |-> r.x, x_mask |-> << >> ]
       ELSE \E r \in { EncoderBlocksJoint(stk_x, stk_pos, stk_x_mask,
                                          stk_pos_mask, Depth) } :
              IF r.raised
              THEN stk_pc' = "raised" /\ stk_out' = stk_out
              ELSE /\ stk_pc' = "done"
                   /\ stk_out' = [ x |-> r.x, x_mask |-> r.x_mask ]
    /\ UNCHANGED << stk_x, stk_pos, stk_has_pos, stk_x_mask, stk_pos_mask,
                    stk_has_mask, return_token_num >>

\* TransformerDecoder.forward(x, pos, return_token_num); self.head is
\* nn.Identity
DecoderForward ==
    /\ stk_pc = "decoder"
    /\ IF ~stk_has_pos
       THEN /\ stk_pc' = "done"
            /\ stk_out' = [ x |-> NormSeq(DecoderBlocksNoPos(stk_x, Depth)),
                            x_mask |-> << >> ]
       ELSE \E r \in { DecoderBlocks(stk_x, stk_pos, Depth) } :
              IF r.raised
              THEN stk_pc' = "raised" /\ stk_out' = stk_out
              ELSE /\ stk_pc' = "done"
                   /\ stk_out' =
                        [ x |-> NormSeq(LastTokens(r.x, return_token_num)),
                          x_mask |-> << >> ]
    /\ UNCHANGED << stk_x, stk_pos, stk_has_pos, stk_x_mask, stk_pos_mask,
                    stk_has_mask, return_token_num >>

\* ----------------------------------- PointTransformer.load_model_from_ckpt
\* strings are sequences of characters
S_MAE_encoder == << "M", "A", "E", "_", "e", "n", "c", "o", "d", "e", "r" >>
S_base_model == << "b", "a", "s", "e", "_", "m", "o", "d", "e", "l" >>
S_module_dot == << "m", "o", "d", "u", "l", "e", "." >>
S_dot == << "." >>

\* k.startswith(p)
StartsWith(k, p) == Len(k) >= Len(p) /\ SubSeq(k, 1, Len(p)) = p

\* k[n:]
DropChars(k, n) == SubSeq(k, n + 1, Len(k))

\* k.replace(old, ""): every non-overlapping occurrence, left to right
RECURSIVE StrReplace(_, _)
StrReplace(k, old) ==
    IF k = << >> THEN << >>
    ELSE IF StartsWith(k, old) THEN StrReplace(DropChars(k, Len(old)), old)
    ELSE << Head(k) >> \o StrReplace(Tail(k), old)

\* a dict is the sequence of its entries in insertion order
DictKeys(d) == { d[i].key : i \in 1..Len(d) }
DictKeyList(d) == [i \in 1..Len(d) |-> d[i].key]
DictGet(d, k) == d[CHOOSE i \in 1..Len(d) : d[i].key = k].val

\* d[k] = v: an existing key keeps its place, a new key goes last
DictSet(d, k, v) ==
    IF k \in DictKeys(d)
    THEN [i \in 1..Len(d) |-> IF d[i].key = k THEN [ key |-> k, val |-> v ]
                              ELSE d[i]]
    ELSE Append(d, [ key |-> k, val |-> v ])

\* del d[k]
DictDel(d, k) == SelectSeq(d, LAMBDA e : e.key # k)

\* {k.replace("module.", ""): v for k, v in ckpt['base_model'].items()}
RECURSIVE StripModule(_, _, _)
StripModule(d, i, acc) ==
    IF i > Len(d) THEN acc
    ELSE StripModule(d, i + 1,
             DictSet(acc, StrReplace(d[i].key, S_module_dot), d[i].val))

\* the key the loop writes for k (k itself when no branch is taken)
RewrittenKey_prefix_only(k) ==
    IF StartsWith(k, S_MAE_encoder) THEN DropChars(k, Len(S_MAE_encoder))
    ELSE IF StartsWith(k, S_base_model) THEN DropChars(k, Len(S_base_model))
    ELSE k
RewrittenKey(k) ==
    IF StartsWith(k, S_MAE_encoder)
    THEN DropChars(k, Len(S_MAE_encoder \o S_dot))
    ELSE IF StartsWith(k, S_base_model)
    THEN DropChars(k, Len(S_base_model \o S_dot))
    ELSE k

IsPrefixed(k) == StartsWith(k, S_MAE_encoder) \/ StartsWith(k, S_base_model)

\* for k in list(base_ckpt.keys()): ...; base_ckpt[k] and del base_ckpt[k]
\* raise KeyError when k is not in the dict
RECURSIVE RewriteLoop(_, _, _)
RewriteLoop(d, keys, i) ==
    IF i > Len(keys) THEN [ raised |-> FALSE, d |-> d ]
    ELSE LET k == keys[i]
         IN  IF ~IsPrefixed(k) THEN RewriteLoop(d, keys, i + 1)
             ELSE IF k \notin DictKeys(d) THEN [ raised |-> TRUE, d |-> d ]
             ELSE RewriteLoop(
                      DictDel(DictSet(d, RewrittenKey(k), DictGet(d, k)), k),
                      keys, i + 1)

\* the classifier's parameters: name -> shape
S_a == << "a" >>
S_b == << "b" >>
S_c == << "c" >>
ModelParams == { S_a, S_b, S_c }
ParamShape == 1

\* load_state_dict: a tensor whose shape differs from the parameter's is
\* an error whatever strict is; with strict, so are missing and unexpected
\* keys
SizeMismatch(d) ==
    { k \in DictKeys(d) \cap ModelParams : DictGet(d, k).shape # ParamShape }
MissingKeys(d) == ModelParams \ DictKeys(d)
UnexpectedKeys(d) == DictKeys(d) \ ModelParams
LoadFails_strict(d) ==
    SizeMismatch(d) # {} \/ MissingKeys(d) # {} \/ UnexpectedKeys(d) # {}
LoadFails(d) == SizeMismatch(d) # {}

\* keys a checkpoint may hold
CkptKeys ==
    { S_a, S_b, << "z" >>,
      S_MAE_encoder \o S_dot \o S_a,
      S_base_model \o S_dot \o S_b,
      S_module_dot \o S_MAE_encoder \o S_dot \o S_b,
      S_MAE_encoder \o S_dot \o S_MAE_encoder \o S_dot \o S_a,
      S_MAE_encoder \o << "_" >> \o S_a }

\* dicts of n entries with distinct keys; entry i holds tensor i
CkptDicts(n) ==
    { d \in [1..n -> [ key : CkptKeys,
                       val : [ id : 1..MaxKeys, shape : { 1, 2 } ] ]] :
        /\ \A i \in 1..n : d[i].val.id = i
        /\ \A i, j \in 1..n : i # j => d[i].key # d[j].key }

NoLoaded == [ k \in ModelParams |-> NoAttr ]
NoIncompatible == [ missing_keys |-> {}, unexpected_keys |-> {} ]

CkptStart ==
    /\ bert_ckpt_path \in BOOLEAN
    /\ \E hb \in BOOLEAN : \E n \in 0..MaxKeys : \E d \in CkptDicts(n) :
          /\ ~bert_ckpt_path => (hb /\ n = 0)
          /\ ~hb => n = 0
          /\ ckpt = [ has_base |-> hb, base_model |-> d ]
    /\ base_ckpt_in = << >>
    /\ base_ckpt = << >>
    /\ loaded = NoLoaded
    /\ incompatible = NoIncompatible
    /\ ckpt_log = << >>
    /\ ckpt_err = ""
    /\ ckpt_pc = "ready"

CkptIdle ==
    /\ bert_ckpt_path = FALSE
    /\ ckpt = [ has_base |-> FALSE, base_model |-> << >> ]
    /\ base_ckpt_in = << >>
    /\ base_ckpt = << >>
    /\ loaded = NoLoaded
    /\ incompatible = NoIncompatible
    /\ ckpt_log = << >>
    /\ ckpt_err = ""
    /\ ckpt_pc = "idle"

\* the print_log calls of lines 870-883
LogOf(inc) ==
    (IF inc.missing_keys # {} THEN << "missing_keys" >> ELSE << >>)
    \o (IF inc.unexpected_keys # {} THEN << "unexpected_keys" >> ELSE << >>)
    \o << "Successful Loading the ckpt" >>

\* PointTransformer.load_model_from_ckpt(bert_ckpt_path)
LoadModelFromCkpt ==
    /\ ckpt_pc = "ready"
    /\ IF ~bert_ckpt_path
       THEN /\ ckpt_log' = << "Training from scratch!!!" >>
            /\ ckpt_pc' = "done"
            /\ UNCHANGED << base_ckpt_in, base_ckpt, loaded, incompatible,
                            ckpt_err >>
       ELSE IF ~ckpt.has_base
       THEN /\ ckpt_err' = "KeyError: 'base_model'"
            /\ ckpt_pc' = "raised"
            /\ UNCHANGED << base_ckpt_in, base_ckpt, loaded, incompatible,
                            ckpt_log >>
       ELSE \E d0 \in { StripModule(ckpt.base_model, 1, << >>) } :
            \E r \in { RewriteLoop(d0, DictKeyList(d0), 1) } :
              /\ base_ckpt_in' = d0
              /\ base_ckpt' = r.d
              /\ IF r.raised
                 THEN /\ ckpt_err' = "KeyError"
                      /\ ckpt_pc' = "raised"
                      /\ UNCHANGED << loaded, incompatible, ckpt_log >>
                 ELSE IF LoadFails(r.d)
                 THEN /\ ckpt_err' = "RuntimeError: size mismatch"
                      /\ ckpt_pc' = "raised"
                      /\ UNCHANGED << loaded, incompatible, ckpt_log >>
                 ELSE /\ loaded' = [ k \in ModelParams |->
                                       IF k \in DictKeys(r.d)
                                       THEN DictGet(r.d, k).id ELSE NoAttr ]
                      /\ incompatible' =
                           [ missing_keys |-> MissingKeys(r.d),
                             unexpected_keys |-> UnexpectedKeys(r.d) ]
                      /\ ckpt_log' = LogOf(incompatible')
                      /\ ckpt_err' = ""
                      /\ ckpt_pc' = "done"
    /\ UNCHANGED << bert_ckpt_path, ckpt >>

\* -------------------------------------- PCP_MAE.__init__ and forward
\* loss names a configuration may give
LossNames == { "cdl1", "cdl2", "emd" }

\* build_loss_func: raise NotImplementedError for any other name
BuildLossFails_never(loss_type) == FALSE
BuildLossFails(loss_type) == loss_type # "cdl1" /\ loss_type # "cdl2"

LossFuncOf(loss_type) ==
    IF loss_type = "cdl1" THEN "ChamferDistanceL1"
    ELSE IF loss_type = "cdl2" THEN "ChamferDistanceL2"
    ELSE "none"

\* the batches given to forward: clouds of 3 points
CloudA == << <<0, 0, 0>>, <<1, 0, 0>>, <<0, 2, 1>> >>
CloudB == << <<3, 2, -1>>, <<0, 0, 1>>, <<1, 0, 2>> >>
CloudD == << <<0, 0, 0>>, <<0, 0, 1>>, <<3, 2, 1>> >>
FwdBatches == { << CloudA >>, << CloudA, CloudB >>, << CloudD >> }

\* the ids <<b, g>> of a B x G tensor's rows, row-major
AllIds(B, G) ==
    [r \in 1..(B * G) |-> << ((r - 1) \div G) + 1, ((r - 1) % G) + 1 >>]

\* t[mask] / t[~mask] on a B x G x ... tensor: the rows whose mask entry
\* is want, in row-major order
MaskedSelect_all(mask, want) == AllIds(Len(mask), Len(mask[1]))
MaskedSelect(mask, want) ==
    SelectSeq(AllIds(Len(mask), Len(mask[1])),
              LAMBDA id : mask[id[1]][id[2]] = want)

\* .reshape(B, -1, C) of n rows fails unless B divides n
ReshapeFails(flat, B) == Len(flat) % B # 0

\* .reshape(B, -1, C): row b holds the b-th run of n / B rows
ReshapeRows_strided(flat, B) ==
    [b \in 1..B |-> [i \in 1..(Len(flat) \div B) |-> flat[(i - 1) * B + b]]]
ReshapeRows(flat, B) ==
    LET L == Len(flat) \div B
    IN  [b \in 1..B |-> SubSeq(flat, (b - 1) * L + 1, b * L)]

\* .reshape(B * M, -1, 3) of a B x M x ... tensor
FlattenRows(rows) ==
    LET M == Len(rows[1])
    IN  [r \in 1..(Len(rows) * M) |->
           rows[((r - 1) \div M) + 1][((r - 1) % M) + 1]]

\* the points of the groups ids, concatenated: .reshape(B, -1, 3)
RECURSIVE PointsOf(_, _, _)
PointsOf(nb, ids, i) ==
    IF i > Len(ids) THEN << >>
    ELSE nb[ids[i][1]][ids[i][2]] \o PointsOf(nb, ids, i + 1)

NoEnc == [ x_vis |-> << >>, x_mask |-> << >>, vis_center |-> << >> ]
NoFwdOut == [ kind |-> "none" ]

FwdStart ==
    /\ config_loss \in LossNames
    /\ loss_func = "none"
    /\ enc_out = NoEnc
    /\ fwd_out = NoFwdOut
    /\ fwd_err = ""
    /\ fwd_pc = "new"
    \* config.transformer_config.mask_type, mask_ratio
    /\ mask_type \in { "rand", "block" }
    /\ mask_ratio \in 0..(RatioDen - 1)
    /\ noaug = FALSE
    /\ center = << >>
    /\ bool_masked_pos = << >>
    /\ anchor = << >>
    /\ num_mask = NoAttr
    /\ rng_draws = 0
    /\ mask_pc = "idle"
    \* config.num_group, config.group_size
    /\ num_group \in 1..MaxG
    /\ group_size \in 1..MaxM
    /\ xyz = << >>
    /\ grp_center = << >>
    /\ grp_idx = << >>
    /\ neighborhood = << >>
    /\ grp_pc = "idle"

FwdIdle ==
    /\ config_loss = "cdl1"
    /\ loss_func = "none"
    /\ enc_out = NoEnc
    /\ fwd_out = NoFwdOut
    /\ fwd_err = ""
    /\ fwd_pc = "idle"

\* PCP_MAE.__init__(config): self.loss = config.loss;
\* self.build_loss_func(self.loss)
Construct ==
    /\ fwd_pc = "new"
    /\ IF BuildLossFails(config_loss)
       THEN /\ fwd_err' = "NotImplementedError"
            /\ fwd_pc' = "raised"
            /\ UNCHANGED loss_func
       ELSE /\ loss_func' = LossFuncOf(config_loss)
            /\ fwd_pc' = "built"
            /\ UNCHANGED fwd_err
    /\ UNCHANGED << config_loss, enc_out, fwd_out, maskVars, groupVars,
                    projVars >>

\* forward(pts, vis): neighborhood, center = self.group_divider(pts)
ForwardCall ==
    /\ fwd_pc = "built"
    /\ \E pts \in FwdBatches : xyz' = pts
    /\ grp_pc' = "ready"
    /\ fwd_pc' = "group"
    /\ UNCHANGED << config_loss, loss_func, enc_out, fwd_out, fwd_err,
                    maskVars, projVars, num_group, group_size, grp_center,
                    grp_idx, neighborhood >>

\* self.MAE_encoder(neighborhood, center): noaug keeps its default
ForwardEncoderCall ==
    /\ fwd_pc = "group"
    /\ grp_pc \in { "done", "raised" }
    /\ IF grp_pc = "raised"
       THEN /\ fwd_err' = "group_divider"
            /\ fwd_pc' = "raised"
            /\ UNCHANGED << center, mask_pc >>
       ELSE /\ center' = grp_center
            /\ mask_pc' = "ready"
            /\ fwd_pc' = "mask"
            /\ UNCHANGED fwd_err
    /\ UNCHANGED << config_loss, loss_func, enc_out, fwd_out, groupVars,
                    projVars, mask_type, mask_ratio, noaug, bool_masked_pos,
                    anchor, num_mask, rng_draws >>

\* MaskTransformer.forward after the mask is drawn (x_vis, x_mask,
\* vis_center), then mask_pts = neighborhood[mask].reshape(B, -1, 3) and
\* the call of proj2img, whose pc.max(dim=1) raises on an empty cloud
ForwardMaskPts ==
    /\ fwd_pc = "mask"
    /\ mask_pc = "done"
    /\ \E B \in { Len(bool_masked_pos) } :
       \E visflat \in { MaskedSelect(bool_masked_pos, FALSE) } :
       \E maskflat \in { MaskedSelect(bool_masked_pos, TRUE) } :
          IF ReshapeFails(visflat, B) \/ ReshapeFails(maskflat, B)
          THEN /\ fwd_err' = "reshape"
               /\ fwd_pc' = "raised"
               /\ UNCHANGED << enc_out, pc, proj_pc >>
          ELSE \E rows \in { ReshapeRows(maskflat, B) } :
                 /\ enc_out' = [ x_vis |-> ReshapeRows(visflat, B),
                                 x_mask |-> rows,
                                 vis_center |-> ReshapeRows(visflat, B) ]
                 /\ IF Len(rows[1]) = 0
                    THEN /\ fwd_err' = "proj2img: max of an empty tensor"
                         /\ fwd_pc' = "raised"
                         /\ UNCHANGED << pc, proj_pc >>
                    ELSE /\ pc' = [b \in 1..B |->
                                     PointsOf(neighborhood, rows[b], 1)]
                         /\ proj_pc' = "ready"
                         /\ fwd_pc' = "proj"
                         /\ UNCHANGED fwd_err
    /\ UNCHANGED << config_loss, loss_func, fwd_out, maskVars, groupVars,
                    nan_int, dense_center, dense_raw, dense_adj, img >>

\* forward from pot_rec to the return: the decoder on [x_vis, mask_token]
\* with [pos_emd_vis, pos_emd_mask], the prediction head, the loss against
\* gt_points and the visualization branch
ForwardDecode ==
    /\ fwd_pc = "proj"
    /\ proj_pc \in { "done", "raised" }
    /\ IF proj_pc = "raised"
       THEN /\ fwd_err' = "proj2img"
            /\ fwd_pc' = "raised"
            /\ UNCHANGED fwd_out
       ELSE \E B \in { Len(enc_out.x_vis) } :
            \E N \in { Len(enc_out.x_mask[1]) } :
            \E maskflat \in { MaskedSelect(bool_masked_pos, TRUE) } :
            \E visflat \in { MaskedSelect(bool_masked_pos, FALSE) } :
            \E pos_vis \in { ReshapeRows(visflat, B) } :
            \E pos_mask \in { ReshapeRows(maskflat, B) } :
            \E x_full \in { [b \in 1..B |->
                  [i \in 1..Len(enc_out.x_vis[b]) |->
                      [ tok |-> << "x_vis", enc_out.x_vis[b][i] >>,
                        pos |-> pos_vis[b][i] ]]
                  \o [i \in 1..N |->
                      [ tok |-> << "mask_token" >>,
                        pos |-> pos_mask[b][i] ]]] } :
            \E x_rec \in { [b \in 1..B |-> LastTokens(x_full[b], N)] } :
            \E rebuild \in { FlattenRows(x_rec) } :
               IF Len(rebuild) = 0 \/ Len(maskflat) # Len(rebuild)
               THEN /\ fwd_err' = "loss_func: shapes differ"
                    /\ fwd_pc' = "raised"
                    /\ UNCHANGED fwd_out
               ELSE IF loss_func = "none"
               THEN /\ fwd_err' = "AttributeError: loss_func"
                    /\ fwd_pc' = "raised"
                    /\ UNCHANGED fwd_out
               ELSE \E vis \in BOOLEAN :
                    /\ fwd_out' =
                         [ kind |-> IF vis THEN "vis" ELSE "loss",
                           rebuild_points |-> rebuild,
                           rebuild_shape |->
                              << Len(rebuild),
                                 (B * Len(x_rec[1]) * 3 * group_size)
                                    \div (Len(rebuild) * 3), 3 >>,
                           gt_points |-> maskflat,
                           full_vis |->
                              IF vis
                              THEN [j \in 1..Len(visflat) |->
                                     [m \in 1..group_size |->
                                        PtAdd(neighborhood[visflat[j][1]]
                                                 [visflat[j][2]][m],
                                              center[visflat[j][1]]
                                                 [visflat[j][2]])]]
                              ELSE << >>,
                           full_rebuild |->
                              IF vis
                              THEN [j \in 1..Len(rebuild) |->
                                     [ pred |-> rebuild[j],
                                       center |-> center[maskflat[j][1]]
                                                     [maskflat[j][2]] ]]
                              ELSE << >> ]
                    /\ fwd_pc' = "done"
                    /\ UNCHANGED fwd_err
    /\ UNCHANGED << config_loss, loss_func, enc_out, maskVars, groupVars,
                    projVars >>

MaskInit == MaskStart /\ GroupIdle /\ AttIdle /\ ProjIdle /\ StackIdle /\ CkptIdle /\ FwdIdle

MaskNext ==
    (MaskCenterBlock \/ MaskCenterRand)
        /\ UNCHANGED << groupVars, attVars, projVars, stackVars, ckptVars, fwdVars >>

SpecMask == MaskInit /\ [][MaskNext]_vars

GroupInit == GroupStart /\ MaskIdle /\ AttIdle /\ ProjIdle /\ StackIdle /\ CkptIdle /\ FwdIdle

GroupNext == GroupForward /\ UNCHANGED << maskVars, attVars, projVars, stackVars, ckptVars, fwdVars >>

SpecGroup == GroupInit /\ [][GroupNext]_vars

AttInit == AttStart /\ MaskIdle /\ GroupIdle /\ ProjIdle /\ StackIdle /\ CkptIdle /\ FwdIdle

AttNext ==
    (BlockForwardJoint \/ BlockForwardJointOther \/ BlockForwardSelf)
        /\ UNCHANGED << maskVars, groupVars, projVars, stackVars, ckptVars, fwdVars >>

SpecAtt == AttInit /\ [][AttNext]_vars

ProjInit == ProjStart /\ MaskIdle /\ GroupIdle /\ AttIdle /\ StackIdle /\ CkptIdle /\ FwdIdle

ProjNext == Proj2Img /\ UNCHANGED << maskVars, groupVars, attVars, stackVars, ckptVars, fwdVars >>

SpecProj == ProjInit /\ [][ProjNext]_vars

StackInit == StackStart /\ MaskIdle /\ GroupIdle /\ AttIdle /\ ProjIdle /\ CkptIdle /\ FwdIdle

StackNext ==
    (EncoderForward \/ DecoderForward)
        /\ UNCHANGED << maskVars, groupVars, attVars, projVars, ckptVars, fwdVars >>

SpecStack == StackInit /\ [][StackNext]_vars

CkptInit ==
    CkptStart /\ MaskIdle /\ GroupIdle /\ AttIdle /\ ProjIdle /\ StackIdle
        /\ FwdIdle

CkptNext ==
    LoadModelFromCkpt
        /\ UNCHANGED << maskVars, groupVars, attVars, projVars, stackVars,
                        fwdVars >>

SpecCkpt == CkptInit /\ [][CkptNext]_vars

FwdInit == FwdStart /\ AttIdle /\ ProjIdle /\ StackIdle /\ CkptIdle

FwdNext ==
    \/ (Construct \/ ForwardCall \/ ForwardEncoderCall \/ ForwardMaskPts
           \/ ForwardDecode)
         /\ UNCHANGED << attVars, stackVars, ckptVars >>
    \/ GroupForward
         /\ UNCHANGED << maskVars, attVars, projVars, stackVars, ckptVars,
                         fwdVars >>
    \/ (MaskCenterBlock \/ MaskCenterRand)
         /\ UNCHANGED << groupVars, attVars, projVars, stackVars, ckptVars,
                         fwdVars >>
    \/ Proj2Img
         /\ UNCHANGED << maskVars, groupVars, attVars, stackVars, ckptVars,
                         fwdVars >>

SpecFwd == FwdInit /\ [][FwdNext]_vars

\* ------------------------------------------------------ masking properties
CountTrue(row) == Cardinality({ g \in DOMAIN row : row[g] })

MaskApplied == mask_pc = "done" /\ ~noaug /\ mask_ratio # 0

MaskShapeOk ==
    /\ Len(bool_masked_pos) = BatchOf(center)
    /\ \A b \in DOMAIN bool_masked_pos :
          Len(bool_masked_pos[b]) = GroupsOf(center)

\* C1 (as stated): with augmentation enabled and mask_ratio in (0,1), each
\* row of the mask has exactly round(mask_ratio * G) true entries.
C1_RoundedCount ==
    MaskApplied =>
        /\ MaskShapeOk
        /\ \A b \in DOMAIN bool_masked_pos :
              CountTrue(bool_masked_pos[b])
                 = PyRound(mask_ratio, RatioDen, GroupsOf(center))

\* C1 (amended): with augmentation enabled and mask_ratio in (0,1), each row
\* of the B x G mask has exactly int(mask_ratio * G) true entries, the
\* product truncated toward zero, for both policies.
C1_TruncatedCount ==
    MaskApplied =>
        /\ MaskShapeOk
        /\ \A b \in DOMAIN bool_masked_pos :
              CountTrue(bool_masked_pos[b])
                 = (mask_ratio * GroupsOf(center)) \div RatioDen

\* a rand mask whose count differs from the rounded product
C1_Witness ==
    /\ MaskApplied
    /\ mask_type = "rand"
    /\ BatchOf(center) = 2
    /\ CountTrue(bool_masked_pos[2]) = 1
    /\ PyRound(mask_ratio, RatioDen, GroupsOf(center)) = 2

\* C2: when mask_ratio is 0 or noaug is true the mask is B x G, all false,
\* whatever the centers are, and no random draw is consumed.
C2_SkipAllFalse ==
    (mask_pc = "done" /\ (noaug \/ mask_ratio = 0)) =>
        /\ MaskShapeOk
        /\ \A b \in DOMAIN bool_masked_pos :
              \A g \in DOMAIN bool_masked_pos[b] : ~bool_masked_pos[b][g]
        /\ rng_draws = 0
        /\ anchor = << >>

C2_Witness ==
    /\ mask_pc = "done"
    /\ noaug
    /\ mask_ratio = RatioDen - 1
    /\ mask_type = "block"
    /\ GroupsOf(center) = MaxG
    /\ bool_masked_pos = ZerosMask(BatchOf(center), MaxG)

BlockApplied == MaskApplied /\ mask_type = "block"

AnchorDist(b, g) == SqDist(center[b][anchor[b]], center[b][g])

NearestToAnchor(b) ==
    \A g, h \in 1..GroupsOf(center) :
        (bool_masked_pos[b][g] /\ ~bool_masked_pos[b][h])
            => AnchorDist(b, g) <= AnchorDist(b, h)

\* C3 (as stated): block masking masks the groups nearest to the anchor,
\* every masked group is at most as far from the anchor as every unmasked
\* one, and the anchor group itself is masked whenever any group is masked.
C3_AnchorItselfMasked ==
    BlockApplied =>
        \A b \in DOMAIN bool_masked_pos :
            /\ anchor[b] \in 1..GroupsOf(center)
            /\ NearestToAnchor(b)
            /\ CountTrue(bool_masked_pos[b]) > 0
                  => bool_masked_pos[b][anchor[b]]

\* C3 (amended): block masking masks exactly int(mask_ratio * G) groups per
\* sample, every masked group is at most as far from the anchor (one of the
\* sample's G centers) as every unmasked group, and whenever any group is
\* masked a group whose center coincides with the anchor's center is masked
\* (the anchor itself when no other center coincides with it).
C3_NearestToAnchorMasked ==
    BlockApplied =>
        \A b \in DOMAIN bool_masked_pos :
            /\ anchor[b] \in 1..GroupsOf(center)
            /\ CountTrue(bool_masked_pos[b])
                  = (mask_ratio * GroupsOf(center)) \div RatioDen
            /\ NearestToAnchor(b)
            /\ CountTrue(bool_masked_pos[b]) > 0
                  => \E g \in 1..GroupsOf(center) :
                        /\ bool_masked_pos[b][g]
                        /\ center[b][g] = center[b][anchor[b]]
            /\ (CountTrue(bool_masked_pos[b]) > 0
                 /\ \A g \in 1..GroupsOf(center) :
                        g # anchor[b] => center[b][g] # center[b][anchor[b]])
                  => bool_masked_pos[b][anchor[b]]

\* a block mask in which a center coinciding with the anchor's is masked in
\* the anchor's place, while a farther group stays unmasked
C3_Witness ==
    /\ BlockApplied
    /\ \E b \in DOMAIN bool_masked_pos :
          \E g, h \in 1..GroupsOf(center) :
             /\ bool_masked_pos[b][g]
             /\ ~bool_masked_pos[b][anchor[b]]
             /\ ~bool_masked_pos[b][h]
             /\ AnchorDist(b, g) < AnchorDist(b, h)

\* ------------------------------------------------------ grouping properties
CloudN == Len(xyz[1])

\* C4: a returned grouping has exactly G groups per cloud with exactly M
\* points each, and neighborhood[b,g,m] + center[b,g] is the point of cloud
\* b itself that the k-NN index selects for that slot.
C4_GroupsReconstructOwnCloud ==
    grp_pc = "done" =>
        /\ Len(grp_center) = Len(xyz)
        /\ Len(neighborhood) = Len(xyz)
        /\ \A b \in 1..Len(xyz) :
              /\ Len(grp_center[b]) = num_group
              /\ Len(neighborhood[b]) = num_group
              /\ \A g \in 1..num_group :
                    /\ Len(neighborhood[b][g]) = group_size
                    /\ \A m \in 1..group_size :
                          /\ grp_idx[b][g][m] \in 0..(CloudN - 1)
                          /\ PtAdd(neighborhood[b][g][m], grp_center[b][g])
                                = xyz[b][grp_idx[b][g][m] + 1]

\* a grouping of two clouds in which a member of the second cloud's group is
\* a point that the first cloud does not contain
C4_Witness ==
    /\ grp_pc = "done"
    /\ Len(xyz) = 2
    /\ group_size >= 2
    /\ num_group >= 2
    /\ \E g \in 1..num_group, m \in 1..group_size :
          /\ PtAdd(neighborhood[2][g][m], grp_center[2][g])
                \notin { xyz[1][i] : i \in 1..CloudN }
          /\ neighborhood[2][g][m] # << 0, 0, 0 >>

\* C5: grouping raises instead of returning whenever the cloud has fewer
\* points than the group size (N < M) or than the group count (N < G).
C5_TooFewPointsRaises ==
    (grp_pc \in {"done", "raised"}
        /\ (CloudN < group_size \/ CloudN < num_group))
      => grp_pc = "raised"

C5_Witness ==
    /\ grp_pc = "raised"
    /\ CloudN < num_group
    /\ CloudN >= group_size
    /\ neighborhood = << >>

\* ----------------------------------------------------- attention properties
\* the cross-attention output the joint pass owes to query token t of y:
\* that query against the keys and values of all N + L normalised tokens
CrossRow(t, x, y) ==
    LET all == Norm1Seq(x \o y)
    IN  ProjOf(AttnRow(QOf(Norm1(t)), KSeq(all), VSeq(all)))

\* C6: in the joint attention the X output is computed from X alone (it is
\* the same for any two Y sequences of any lengths, given the same X, weights
\* and generator seed), and the Y output at each position is that Y query
\* against the keys/values of all N + L concatenated tokens.
C6_XIndependentOfY ==
    att_pc \in {"self", "done"} =>
        /\ out_joint.attn_x = out_joint2.attn_x
        /\ out_joint.x = out_joint2.x
        /\ Len(out_joint.x) = Len(att_x)
        /\ Len(out_joint.attn_y) = Len(att_y)
        /\ \A i \in 1..Len(att_y) :
              out_joint.attn_y[i] = CrossRow(att_y[i], att_x, att_y)
        /\ \A i \in 1..Len(att_y2) :
              out_joint2.attn_y[i] = CrossRow(att_y2[i], att_x, att_y2)

\* two joint calls whose Y sequences differ in length and content, with
\* stochastic depth active
C6_Witness ==
    /\ att_pc = "done"
    /\ drop_path_active
    /\ Len(att_x) = 2
    /\ Len(att_y) = 1
    /\ Len(att_y2) = 2
    /\ att_y2[1] # att_y[1]
    /\ out_joint.y # out_joint2.y

\* C7 (as stated): called with a Y of length 0, the block's X output equals
\* the output of the same block in self-attention mode on the same X.
C7_EmptyYEqualsSelf ==
    (att_pc = "done" /\ Len(att_y) = 0) => out_joint.x = out_self.x

\* C7 (amended): called with a Y of length 0, the block's X output equals
\* the self-attention output on the same X whenever stochastic depth is
\* inactive (evaluation mode or drop_path = 0); the attention sub-step output
\* for X is equal in every case.
C7_EmptyYEqualsSelfDeterministic ==
    (att_pc = "done" /\ Len(att_y) = 0) =>
        /\ out_joint.attn_x = out_self.attn_x
        /\ out_joint.y = << >>
        /\ ~drop_path_active => out_joint.x = out_self.x

C7_Witness ==
    /\ att_pc = "done"
    /\ Len(att_y) = 0
    /\ Len(att_x) = 2
    /\ ~drop_path_active
    /\ out_joint.x = out_self.x
    /\ out_joint.draws = 0

\* ---------------------------------------------------- projection properties
ProjReturned == proj_pc \in {"done", "raised"}

\* C8: for every point count N >= 1, proj2img returns per sample an image of
\* exactly resolution x resolution x 3 values (resolution 224) in which
\* every cell is defined, the cells the scatter did not produce being
\* zero padding.
C8_ImageAlwaysFullShape ==
    ProjReturned =>
        /\ proj_pc = "done"
        /\ img.res_shape = << Len(pc), 224, 224, 3 >>
        /\ img.size = 224 * 224
        /\ img.out_size <= img.size
        /\ \A b \in 1..Len(pc) :
              DOMAIN img.sums[b] \subseteq 0..(img.out_size - 1)

\* C9: for every cloud whose x/y extent is non-zero, the call passes the
\* bounds assertion: all 25*N adjusted replica indices lie in [0, 223] in
\* both coordinates, each is the raw index clamped to the nearest edge, and
\* no replica is dropped.
C9_AdjustedIndicesInBounds ==
    (ProjReturned /\ \A b \in 1..Len(pc) : Extent(pc[b]) # 0) =>
        /\ proj_pc = "done"
        /\ \A b \in 1..Len(pc) :
              /\ ~dense_adj[b].nan
              /\ Len(dense_adj[b].v) = 25 * Len(pc[b])
              /\ \A r \in 1..Len(dense_adj[b].v) :
                    \A c \in 1..2 :
                       LET raw == dense_raw[b].v[r][c]
                           adj == dense_adj[b].v[r][c]
                       IN  /\ adj \in 0..223
                           /\ adj = IF raw < 0 THEN 0
                                    ELSE IF raw > 223 THEN 223 ELSE raw

\* a cloud whose replicas leave the image on both sides before the
\* adjustment and are moved onto the edges by it
C9_Witness ==
    /\ proj_pc = "done"
    /\ Len(pc) = 2
    /\ \E b \in 1..Len(pc) :
          /\ \E r \in 1..Len(dense_raw[b].v) :
                dense_raw[b].v[r][1] = -1 /\ dense_adj[b].v[r][1] = 0
          /\ \E r \in 1..Len(dense_raw[b].v) :
                dense_raw[b].v[r][1] = 224 /\ dense_adj[b].v[r][1] = 223

AllPointsIdentical == \A b \in 1..Len(pc) : \A n \in 1..Len(pc[b]) :
                          pc[b][n] = pc[b][1]

\* C10: on a degenerate input (all points identical, zero x/y extent and zero
\* grid cell size) proj2img completes without error and every pixel of the
\* returned image is finite.
C10_DegenerateInputCompletes ==
    (ProjReturned /\ AllPointsIdentical) =>
        /\ proj_pc = "done"
        /\ \A b \in 1..Len(pc) : ~dense_adj[b].nan

\* the z coordinates of the replicas r..25*N of sample b that the adjusted
\* index sends to cell, summed replica by replica
RECURSIVE ReplicaZSum(_, _, _)
ReplicaZSum(b, cell, r) ==
    IF r > 25 * Len(pc[b]) THEN 0
    ELSE (IF dense_adj[b].v[r][1] * 224 + dense_adj[b].v[r][2] = cell
          THEN pc[b][((r - 1) \div 25) + 1][3] ELSE 0)
         + ReplicaZSum(b, cell, r + 1)

RECURSIVE SumOfCells(_, _)
SumOfCells(f, cells) ==
    IF cells = {} THEN 0
    ELSE LET c == CHOOSE c \in cells : TRUE
         IN  f[c] + SumOfCells(f, cells \ {c})

RECURSIVE SumOfZ(_, _)
SumOfZ(s, n) == IF n > Len(s) THEN 0 ELSE s[n][3] + SumOfZ(s, n + 1)

\* C17: before the sigmoid, every cell (in each of the 3 channels, which are
\* copies of one another) holds the sum of the z coordinates of all point
\* replicas (25 per point) whose adjusted index maps to it, a cell no
\* replica maps to holds 0 (it is not written), and the cells of one channel
\* add up to 25 times the sum of the input z coordinates.
C17_CellsSumReplicaZ ==
    proj_pc = "done" =>
        \A b \in 1..Len(pc) :
            /\ DOMAIN img.sums[b] =
                  { dense_adj[b].v[r][1] * 224 + dense_adj[b].v[r][2] :
                      r \in 1..(25 * Len(pc[b])) }
            /\ \A c \in DOMAIN img.sums[b] :
                  img.sums[b][c] = ReplicaZSum(b, c, 1)
            /\ SumOfCells(img.sums[b], DOMAIN img.sums[b])
                  = 25 * SumOfZ(pc[b], 1)

\* an image in which the edge adjustment sends two replicas of a point
\* with a negative z into one cell, next to cells hit once
C17_Witness ==
    /\ proj_pc = "done"
    /\ \E b \in 1..Len(pc) :
          \E n \in 1..Len(pc[b]) :
             /\ pc[b][n][3] < 0
             /\ \E c \in DOMAIN img.sums[b] : img.sums[b][c] = 2 * pc[b][n][3]
             /\ \E c \in DOMAIN img.sums[b] : img.sums[b][c] = pc[b][n][3]

\* ----------------------------------------- encoder / decoder properties
\* the sequence operands of every addition the call makes have equal length
StackLengthsMatch ==
    /\ stk_has_pos => Len(stk_x) = Len(stk_pos)
    /\ stk_has_mask => Len(stk_x_mask) = Len(stk_pos_mask)

\* C15: a call whose positional embedding differs in sequence length from
\* the tokens it is added to (x and pos, x_mask and pos_mask) fails; a
\* returned call had operands of equal length, also when pos has length 1
C15_LengthMismatchFails == stk_pc = "done" => StackLengthsMatch

\* C16: the decoder called with pos and return_token_num = k on T tokens,
\* 0 <= k <= T, returns exactly k tokens, the normed last k of the sequence
C16_ReturnsLastK ==
    (/\ stk_pc = "done"
     /\ stk_has_pos /\ ~stk_has_mask /\ return_token_num # NoAttr
     /\ Len(stk_x) = Len(stk_pos)
     /\ return_token_num <= Len(stk_x))
    => LET T == Len(stk_x)
           k == return_token_num
           full == DecoderBlocks(stk_x, stk_pos, Depth).x
       IN  /\ Len(stk_out.x) = k
           /\ stk_out.x = NormSeq(SubSeq(full, T - k + 1, T))

\* ------------------------------------------- checkpoint-load properties
CkptLoadTried == ckpt_pc \in { "done", "raised" } /\ bert_ckpt_path /\ ckpt.has_base

LastOf(q) == q[Len(q)]

InLog(m) == \E i \in 1..Len(ckpt_log) : ckpt_log[i] = m

\* C13: load_model_from_ckpt never raises because of missing or unexpected
\* parameter keys: the only load error is a size mismatch of a matching
\* key; otherwise the load completes, the missing and the unexpected keys
\* are exactly those the model lacks from / the checkpoint adds to the
\* model's parameters, each non-empty list is logged and the success
\* message comes last
C13_MissingUnexpectedNeverRaise ==
    CkptLoadTried =>
        /\ ckpt_pc = "raised" =>
              /\ ckpt_err = "RuntimeError: size mismatch"
              /\ SizeMismatch(base_ckpt) # {}
        /\ SizeMismatch(base_ckpt) = {} =>
              /\ ckpt_pc = "done"
              /\ incompatible.missing_keys = ModelParams \ DictKeys(base_ckpt)
              /\ incompatible.unexpected_keys =
                    DictKeys(base_ckpt) \ ModelParams
              /\ InLog("missing_keys") <=> incompatible.missing_keys # {}
              /\ InLog("unexpected_keys")
                    <=> incompatible.unexpected_keys # {}
              /\ LastOf(ckpt_log) = "Successful Loading the ckpt"

\* a completed load of a checkpoint none of whose keys is a parameter
C13_Witness ==
    /\ CkptLoadTried
    /\ ckpt_pc = "done"
    /\ Len(base_ckpt) = 2
    /\ DictKeys(base_ckpt) \cap ModelParams = {}
    /\ incompatible.missing_keys = ModelParams
    /\ Cardinality(incompatible.unexpected_keys) = 2

\* the key a prefixed key is rewritten to: 'MAE_encoder.' has 12
\* characters, 'base_model.' has 11
ExpectedKey(k) ==
    IF StartsWith(k, S_MAE_encoder) THEN DropChars(k, 12)
    ELSE IF StartsWith(k, S_base_model) THEN DropChars(k, 11)
    ELSE k

HasEntry(d, k, v) == \E i \in 1..Len(d) : d[i].key = k /\ d[i].val = v

\* every entry is found under its rewritten key with its own value, and
\* no entry is lost
EntriesPreserved ==
    /\ \A i \in 1..Len(base_ckpt_in) :
          HasEntry(base_ckpt, ExpectedKey(base_ckpt_in[i].key),
                   base_ckpt_in[i].val)
    /\ Len(base_ckpt) = Len(base_ckpt_in)

\* no rewritten key is another entry's key, before or after its rewriting
CollisionFree(d) ==
    \A i, j \in 1..Len(d) :
        i # j => /\ ExpectedKey(d[i].key) # ExpectedKey(d[j].key)
                 /\ ExpectedKey(d[i].key) # d[j].key

\* C18 as stated: for every key set the loop ends without a key error,
\* every prefixed entry is replaced by one entry under the stripped key
\* with its value, every other entry is kept, and the count is unchanged
C18_RewritePreservesEntries ==
    CkptLoadTried => (ckpt_err # "KeyError" /\ EntriesPreserved)

\* C18 amended: the loop never raises a key error and never adds entries;
\* when no rewritten key collides with another entry's key, every prefixed
\* entry is replaced by one entry whose key is the original without its
\* first 12 (MAE_encoder) or 11 (base_model) characters and whose value is
\* the original's, every other entry is kept and the count is unchanged
C18_RewriteCollisionFree ==
    CkptLoadTried =>
        /\ ckpt_err # "KeyError"
        /\ Len(base_ckpt) <= Len(base_ckpt_in)
        /\ CollisionFree(base_ckpt_in) => EntriesPreserved

\* a collision-free checkpoint with a prefixed and an unprefixed entry
C18_Witness ==
    /\ CkptLoadTried
    /\ CollisionFree(base_ckpt_in)
    /\ Len(base_ckpt_in) = 2
    /\ \E i, j \in 1..2 :
          /\ StartsWith(base_ckpt_in[i].key, S_MAE_encoder \o S_dot)
          /\ ~IsPrefixed(base_ckpt_in[j].key)
          /\ HasEntry(base_ckpt, DropChars(base_ckpt_in[i].key, 12),
                      base_ckpt_in[i].val)

\* ---------------------------------------------- PCP_MAE properties
FwdDone == fwd_pc = "done"

IdsOf(row) == { row[i] : i \in 1..Len(row) }

\* C11: in a forward pass that gets past the encoder, the mask splits
\* the G groups of every sample into disjoint visible and masked sets
\* whose union is all G groups, int(mask_ratio * G) of them masked; when
\* the pass returns, the number of reconstructed groups is the
\* masked-token count and the reconstructed tensor has shape
\* (B * masked, group_size, 3); for G = 64 and mask_ratio = 0.6 that is
\* 38 masked and 26 visible tokens
C11_TokenCounts ==
    /\ IntTrunc(3, 5, 64) = 38
    /\ 64 - IntTrunc(3, 5, 64) = 26
    /\ fwd_pc \in { "proj", "done" } =>
         LET M == IntTrunc(mask_ratio, RatioDen, num_group)
         IN  \A b \in 1..Len(xyz) :
                /\ IdsOf(enc_out.x_vis[b]) \cap IdsOf(enc_out.x_mask[b]) = {}
                /\ IdsOf(enc_out.x_vis[b]) \cup IdsOf(enc_out.x_mask[b])
                      = { << b, g >> : g \in 1..num_group }
                /\ Len(enc_out.x_mask[b]) = M
                /\ Len(enc_out.x_vis[b]) = num_group - M
                /\ CountTrue(bool_masked_pos[b]) = M
    /\ FwdDone =>
         LET B == Len(xyz)
             M == IntTrunc(mask_ratio, RatioDen, num_group)
         IN  /\ Len(fwd_out.rebuild_points) = B * M
             /\ fwd_out.rebuild_shape = << B * M, group_size, 3 >>

\* a returned pass over two samples with two masked and one visible group
C11_Witness ==
    /\ FwdDone
    /\ Len(xyz) = 2
    /\ num_group = 3
    /\ group_size = 2
    /\ Len(enc_out.x_mask[1]) = 2
    /\ Len(enc_out.x_vis[1]) = 1
    /\ fwd_out.rebuild_shape = << 4, 2, 3 >>

\* C12: construction with a loss name other than 'cdl1' / 'cdl2' raises
\* in the constructor itself, before any forward call is made;
\* construction with 'cdl1' or 'cdl2' does not raise that error and no
\* forward call fails for a missing loss function
C12_LossNameFailsFast ==
    fwd_pc \notin { "new", "idle" } =>
        IF config_loss \in { "cdl1", "cdl2" }
        THEN /\ fwd_err # "NotImplementedError"
             /\ fwd_err # "AttributeError: loss_func"
             /\ loss_func = LossFuncOf(config_loss)
        ELSE /\ fwd_pc = "raised"
             /\ fwd_err = "NotImplementedError"
             /\ grp_pc = "idle"
             /\ xyz = << >>

\* the constructor raised for the name 'emd'
C12_Witness ==
    /\ config_loss = "emd"
    /\ fwd_pc = "raised"
    /\ fwd_err = "NotImplementedError"
    /\ loss_func = "none"

\* the attributes of the modules other than learned parameters
ModuleAttrs ==
    << mask_type, mask_ratio, num_group, group_size, loss_func, num_mask >>

\* C14: a forward call leaves every attribute of the module other than
\* learned parameters unchanged: no step of a forward call changes them
C14_ForwardKeepsModuleState ==
    [][fwd_pc # "new" => ModuleAttrs' = ModuleAttrs]_vars

\* the original points of group <<b, g>>
GroupPoints(id) ==
    [m \in 1..group_size |-> xyz[id[1]][grp_idx[id[1]][id[2]][m] + 1]]

\* C19: in a forward pass that returns, every sample has the same number
\* of masked groups and every row of x_vis, x_mask and vis_center holds
\* groups of its own sample; the j-th reconstructed group comes from the
\* decoder slot whose positional embedding is the center of the masked
\* group that supplies the j-th ground-truth neighborhood, a group of
\* sample (j - 1) div M; in visualization mode every reconstructed group
\* is translated by that same group's center and every visible group by
\* its own center, back to the points it was gathered from
C19_SlotsAligned ==
    FwdDone =>
        LET B == Len(xyz)
            M == Len(enc_out.x_mask[1])
        IN  /\ \A b \in 1..B :
                  /\ CountTrue(bool_masked_pos[b]) = M
                  /\ \A i \in 1..Len(enc_out.x_vis[b]) :
                        /\ enc_out.x_vis[b][i][1] = b
                        /\ enc_out.vis_center[b][i] = enc_out.x_vis[b][i]
                  /\ \A i \in 1..Len(enc_out.x_mask[b]) :
                        enc_out.x_mask[b][i][1] = b
            /\ Len(fwd_out.gt_points) = Len(fwd_out.rebuild_points)
            /\ \A j \in 1..Len(fwd_out.rebuild_points) :
                  LET id == fwd_out.gt_points[j]
                  IN  /\ fwd_out.rebuild_points[j].tok = << "mask_token" >>
                      /\ fwd_out.rebuild_points[j].pos = id
                      /\ id[1] = ((j - 1) \div M) + 1
                      /\ bool_masked_pos[id[1]][id[2]]
                      /\ \A k \in 1..Len(fwd_out.gt_points) :
                            k # j => fwd_out.gt_points[k] # id
            /\ fwd_out.kind = "vis" =>
                  /\ \A j \in 1..Len(fwd_out.full_rebuild) :
                        /\ fwd_out.full_rebuild[j].pred
                              = fwd_out.rebuild_points[j]
                        /\ fwd_out.full_rebuild[j].center
                              = grp_center[fwd_out.gt_points[j][1]]
                                          [fwd_out.gt_points[j][2]]
                  /\ Len(fwd_out.full_vis) = B * (num_group - M)
                  /\ \A b \in 1..B : \A g \in 1..num_group :
                        ~bool_masked_pos[b][g] =>
                           \E j \in 1..Len(fwd_out.full_vis) :
                              /\ ((j - 1) \div (num_group - M)) + 1 = b
                              /\ fwd_out.full_vis[j] = GroupPoints(<< b, g >>)

\* a visualization pass over two samples, two masked groups each, whose
\* masks differ
C19_Witness ==
    /\ FwdDone
    /\ fwd_out.kind = "vis"
    /\ Len(xyz) = 2
    /\ Len(enc_out.x_mask[1]) = 2
    /\ bool_masked_pos[1] # bool_masked_pos[2]
    /\ Len(fwd_out.full_vis) = 2

====
